---- MODULE Spec2Model ----
(***************************************************************************)
(* A model of python3/crifanLib/thirdParty/crifanWordpress.py: the         *)
(* response normaliser (processCommonResponse), the name matcher           *)
(* (findSameNameTaxonomy), the paginated search (getAllTaxonomy) and the   *)
(* batch resolver (getTaxonomyIdList) with the remote collection it talks  *)
(* to, createPost, validateToken, createTaxonomy and generateSlug.         *)
(*                                                                         *)
(* Python values are tagged records: a dict is [kind |-> "dict", val |-> f]*)
(* with f a function from keys to values, a list is [kind |-> "list",      *)
(* val |-> s] with s a sequence, None is [kind |-> "none"].  A call that   *)
(* ends in an exception yields [raised |-> TRUE]; a call that returns      *)
(* (isOk, respInfo) yields [raised |-> FALSE, isOk |-> .., respInfo |-> ..]*)
(***************************************************************************)
EXTENDS Integers, Sequences, FiniteSets, TLC

VARIABLES
    \* ---- processCommonResponse, called on its own ----
    resp,           \* the requests.Response handed to processCommonResponse
    normPc,         \* "call" before the call, "done" after it
    normResult,     \* what the call produced
    \* ---- findSameNameTaxonomy, called on its own ----
    findName,       \* the name to find
    findList,       \* the taxonomy list searched
    findPc,         \* "call" before the call, "done" after it
    findResult,     \* the record found, or None
    \* ---- getTaxonomyIdList and the remote collection ----
    nameList,       \* getTaxonomyIdList's nameList
    taxonomy,       \* getTaxonomyIdList's taxonomy: "category" or "post_tag"
    remote,         \* the remote collection of that taxonomy, in listing order
    pc,             \* where getTaxonomyIdList is: "start", "search_first",
                    \* "search_rest", "create", "done" (returned), "raised"
    curNum,         \* curNum: 1-based position in nameList of eachTaxonomyName
    taxonomyIdList, \* the id list being built
    firstPageRespList,    \* getAllTaxonomy's firstPageRespList
    restRespAllItemList,  \* getAllTaxonomy's restRespAllItemList
    restCurPage,          \* getAllTaxonomy's restCurPage
    isSearhOk,            \* getTaxonomyIdList's isSearhOk (sic) of this name
    existedTaxonomy,      \* getTaxonomyIdList's existedTaxonomy of this name
    requests,       \* history: every request sent, with what came back
    getAllResults,  \* history: what each call of getAllTaxonomy returned
    iterations,     \* history: the locals of each finished loop iteration
    \* ---- createPost ----
    postPc,             \* "start", "categories", "tags", "send", "done"
    categoryNameList,   \* createPost's categoryNameList
    tagNameList,        \* createPost's tagNameList
    categoryIdList,     \* createPost's categoryIdList
    tagIdList,          \* createPost's tagIdList
    otherRemote,        \* the remote collection of the taxonomy not in `remote`
    postResult,         \* what createPost returned
    \* ---- validateToken ----
    tokenPc,            \* "call" before the call, "done" after it
    tokenResp,          \* the response the token endpoint gives
    tokenRequests,      \* history: the requests validateToken sent
    tokenResult,        \* what the call produced
    \* ---- createTaxonomy, called on its own ----
    createPc,           \* "call" before the call, "done" after it
    createArgs,         \* name, taxonomy, parent, slug, description
    createRequests,     \* history: the requests createTaxonomy sent
    createResult,       \* what the call produced
    \* ---- generateSlug ----
    slugPc,             \* "call" before the call, "done" after it
    enTitle,            \* the title handed to generateSlug
    slugResult,         \* what generateSlug returned
    \* ---- two clients calling getTaxonomyIdList on one remote ----
    client,             \* the client whose call is running: 1 or 2
    other,              \* the locals of the other client's call, which waits
    marks,              \* history: who took over, and after how many requests
    remote0             \* history: the collection when the clients started

normVars == <<resp, normPc, normResult>>
normIdle == resp = [status_code |-> 200, body |-> [kind |-> "scalar"]]
                /\ normPc = "idle" /\ normResult = [raised |-> FALSE]

findVars == <<findName, findList, findPc, findResult>>
findIdle == findName = <<>> /\ findList = <<>> /\ findPc = "idle"
                /\ findResult = [kind |-> "none"]

resolveVars == <<nameList, taxonomy, remote, pc, curNum, taxonomyIdList,
                 firstPageRespList, restRespAllItemList, restCurPage,
                 isSearhOk, existedTaxonomy, requests, getAllResults, iterations>>
resolveIdle ==
    /\ nameList = <<>> /\ taxonomy = "category" /\ remote = <<>> /\ pc = "idle"
    /\ curNum = 0 /\ taxonomyIdList = <<>>
    /\ firstPageRespList = <<>> /\ restRespAllItemList = <<>> /\ restCurPage = 0
    /\ isSearhOk = FALSE /\ existedTaxonomy = [kind |-> "none"]
    /\ requests = <<>> /\ getAllResults = <<>> /\ iterations = <<>>

postVars == <<postPc, categoryNameList, tagNameList, categoryIdList, tagIdList,
              otherRemote, postResult>>
postIdle ==
    /\ postPc = "idle" /\ categoryNameList = <<>> /\ tagNameList = <<>>
    /\ categoryIdList = <<>> /\ tagIdList = <<>> /\ otherRemote = <<>>
    /\ postResult = [raised |-> FALSE]

tokenVars == <<tokenPc, tokenResp, tokenRequests, tokenResult>>
tokenIdle ==
    /\ tokenPc = "idle" /\ tokenResp = [status_code |-> 200, body |-> [kind |-> "scalar"]]
    /\ tokenRequests = <<>> /\ tokenResult = [raised |-> FALSE]

createVars == <<createPc, createArgs, createRequests, createResult>>
createIdle ==
    /\ createPc = "idle" /\ createArgs = <<>>
    /\ createRequests = <<>> /\ createResult = [raised |-> FALSE]

slugVars == <<slugPc, enTitle, slugResult>>
slugIdle == slugPc = "idle" /\ enTitle = <<>> /\ slugResult = <<>>

raceVars == <<client, other, marks, remote0>>
raceIdle == client = 0 /\ other = <<>> /\ marks = <<>> /\ remote0 = <<>>

auxVars == <<postVars, tokenVars, createVars, slugVars, raceVars>>
auxIdle == postIdle /\ tokenIdle /\ createIdle /\ slugIdle /\ raceIdle

vars == <<normVars, findVars, resolveVars, auxVars>>

----------------------------------------------------------------------------
(* Python values *)

PyNone == [kind |-> "none"]
PyDict(f) == [kind |-> "dict", val |-> f]
PyList(s) == [kind |-> "list", val |-> s]
EmptyDict == [k \in {} |-> 0]

\* Python truthiness of None, a dict and a list (`if x:`).
Truthy(v) ==
    CASE v.kind = "none" -> FALSE
      [] v.kind = "dict" -> DOMAIN v.val # {}
      [] v.kind = "list" -> Len(v.val) > 0

Raised == [raised |-> TRUE]
Returned(isOk, respInfo) == [raised |-> FALSE, isOk |-> isOk, respInfo |-> respInfo]

\* The placeholder of a result before the call is made.
NotCalled == Returned(FALSE, PyNone)

Restrict(f, K) == [k \in K |-> f[k]]

----------------------------------------------------------------------------
(* HTTP responses.  A body is the raw text of the response: text that is   *)
(* no JSON ("text"), a JSON scalar ("scalar"), a JSON array ("list") or a  *)
(* JSON object ("dict").                                                   *)

BodyText == [kind |-> "text"]
BodyScalar == [kind |-> "scalar"]

StatusCodes == {200, 201, 403, 500}

\* requests.Response.ok: the status code is below 400.
RespOk(r) == r.status_code < 400

\* requests.Response.json(): the parsed body; raises on text that is no JSON.
JsonRaises(r) == r.body.kind = "text"
RespJson(r) == r.body

\* requests.Response.text: the raw body.
RespText(r) == r.body

\* if "type" in respJson: ... if (curType == "attachment") or (curType == "post")
IsMediaType(j) == "type" \in DOMAIN j /\ j["type"] \in {"attachment", "post"}

\* if "taxonomy" in respJson
HasTaxonomy(j) == "taxonomy" \in DOMAIN j

IsCategory_AnyTaxonomy(j) == HasTaxonomy(j)

\* if curTaxonomy == "category" (inside `if "taxonomy" in respJson`)
IsCategory(j) == HasTaxonomy(j) /\ j["taxonomy"] = "category"

\* The part of processCommonResponse taken when the parsed body is a dict
\* holding "id".  Every respJson[k] of a missing key is a KeyError.
ExtractIdInfo(j) ==
    LET has(k) == k \in DOMAIN j
        keyError ==
            \/ ~has("slug") \/ ~has("link")
            \/ IsMediaType(j) /\ (~has("guid") \/ ~has("title"))
            \/ IsMediaType(j) /\ has("guid") /\ "rendered" \notin DOMAIN j["guid"]
            \/ IsMediaType(j) /\ has("title") /\ "rendered" \notin DOMAIN j["title"]
            \/ HasTaxonomy(j) /\ (~has("name") \/ ~has("description"))
            \/ IsCategory(j) /\ ~has("parent")
        base == [id |-> j["id"], slug |-> j["slug"], link |-> j["link"]]
        media == IF IsMediaType(j)
                 THEN [url |-> j["guid"]["rendered"], title |-> j["title"]["rendered"]]
                 ELSE EmptyDict
        tax == IF HasTaxonomy(j)
               THEN [name |-> j["name"], description |-> j["description"]]
               ELSE EmptyDict
        cat == IF IsCategory(j) THEN [parent |-> j["parent"]] ELSE EmptyDict
    IN  IF keyError THEN Raised
        ELSE Returned(TRUE, PyDict(base @@ media @@ tax @@ cat))

KeepJson_Trimmed(respJson) ==
    IF respJson.kind = "list"
    THEN PyList([i \in 1..Len(respJson.val) |-> respJson.val[Len(respJson.val) + 1 - i]])
    ELSE PyDict(Restrict(respJson.val, DOMAIN respJson.val \ {"code"}))

\* respInfo = respJson: the parsed body itself is the payload (an object
\* without "id", line 768; a list, line 773).
KeepJson(respJson) == respJson

\* processCommonResponse(resp)
ProcessCommonResponse(r) ==
    IF RespOk(r)
    THEN IF JsonRaises(r) THEN Raised
         ELSE LET respJson == RespJson(r) IN
              IF respJson.kind = "dict"
              THEN IF "id" \in DOMAIN respJson.val
                   THEN ExtractIdInfo(respJson.val)
                   ELSE Returned(TRUE, KeepJson(respJson))
              ELSE IF respJson.kind = "list"
                   THEN Returned(TRUE, KeepJson(respJson))
                   ELSE Returned(FALSE, PyDict(EmptyDict))
    ELSE Returned(FALSE, PyDict([errCode |-> r.status_code, errMsg |-> RespText(r)]))

----------------------------------------------------------------------------
(* The responses processCommonResponse is tried on. *)

ObjectKeys == {"id", "slug", "link", "type", "guid", "title",
               "taxonomy", "name", "description", "parent", "code"}
TypeValues == {"attachment", "post", "page"}
TaxonomyValues == {"category", "post_tag"}
RenderedShapes == {[rendered |-> "r", raw |-> "w"], [raw |-> "w"]}

FullObject(ty, tx, g, t) ==
    [id |-> 13224, slug |-> "gpu", link |-> "https://host/tag/gpu/",
     type |-> ty, guid |-> g, title |-> [k \in DOMAIN t |-> <<"t", t[k]>>],
     taxonomy |-> tx, name |-> "GPU", description |-> "", parent |-> 0,
     code |-> "jwt_auth_valid_token"]

NormObjects ==
    { Restrict(FullObject(ty, tx, g, t), K) :
        K \in SUBSET ObjectKeys, ty \in TypeValues, tx \in TaxonomyValues,
        g \in RenderedShapes, t \in RenderedShapes }

NormLists == { <<>>, <<[id |-> 1, name |-> "Mac"]>>,
               <<[id |-> 1, name |-> "Cocoa"], [id |-> 2, name |-> "Mac"]>> }

NormBodies ==
    {BodyText, BodyScalar}
        \cup { PyDict(o) : o \in NormObjects }
        \cup { PyList(s) : s \in NormLists }

ErrorBodies == {BodyText, BodyScalar, PyDict([code |-> "jwt_auth_invalid_token"])}

NormResponses ==
    { [status_code |-> s, body |-> b] : s \in {c \in StatusCodes : c < 400}, b \in NormBodies }
        \cup { [status_code |-> s, body |-> b] : s \in {c \in StatusCodes : c >= 400}, b \in ErrorBodies }

NormInit ==
    /\ resp \in NormResponses
    /\ normPc = "call"
    /\ normResult = NotCalled
    /\ findIdle
    /\ resolveIdle
    /\ auxIdle

\* isOk, respInfo = crifanWordpress.processCommonResponse(resp)
Normalize ==
    /\ normPc = "call"
    /\ normResult' = ProcessCommonResponse(resp)
    /\ normPc' = "done"
    /\ UNCHANGED <<resp, findVars, resolveVars, auxVars>>

NormNext == Normalize

SpecNorm == NormInit /\ [][NormNext]_vars

----------------------------------------------------------------------------
(* findSameNameTaxonomy.  A name is a string, modelled as a tuple of       *)
(* characters; str.lower() lower-cases it character by character.          *)

Alphabet == {"M", "m", "c"}

\* The capitals in use and their lower-case letters.
LowerOf == [G |-> "g", I |-> "i", M |-> "m", P |-> "p", T |-> "t"]

\* str.lower() on one character.
LowerChar(ch) == IF ch \in DOMAIN LowerOf THEN LowerOf[ch] ELSE ch

\* str.lower()
Lower(str) == [i \in DOMAIN str |-> LowerChar(str[i])]

\* The two-character names.
Names == Alphabet \X Alphabet

\* A category/tag record as the remote lists it.
TaxonomyRecord(id, name) == [id |-> id, name |-> name, slug |-> <<"s", id>>]

KeepLowercaseMatch_First(prev, eachTaxonomy) ==
    IF prev.kind = "none" THEN PyDict(eachTaxonomy) ELSE prev

\* lowercaseSameNameTaxonomy = eachTaxonomy: each later match overwrites it.
KeepLowercaseMatch(prev, eachTaxonomy) == PyDict(eachTaxonomy)

\* The for loop of findSameNameTaxonomy from element i on; lowerSame is
\* lowercaseSameNameTaxonomy so far.  The loop breaks on the first element
\* whose name equals name.
RECURSIVE FindLoop(_, _, _, _)
FindLoop(name, taxonomyLit, i, lowerSame) ==
    IF i > Len(taxonomyLit)
    THEN [sameNameTaxonomy |-> PyNone, lowercaseSameNameTaxonomy |-> lowerSame]
    ELSE LET eachTaxonomy == taxonomyLit[i]
             curTaxonomyName == eachTaxonomy["name"]
         IN  IF curTaxonomyName = name
             THEN [sameNameTaxonomy |-> PyDict(eachTaxonomy),
                   lowercaseSameNameTaxonomy |-> lowerSame]
             ELSE IF Lower(curTaxonomyName) = Lower(name)
                  THEN FindLoop(name, taxonomyLit, i + 1,
                                KeepLowercaseMatch(lowerSame, eachTaxonomy))
                  ELSE FindLoop(name, taxonomyLit, i + 1, lowerSame)

FindSameNameTaxonomy_SkipLast(name, taxonomyLit) ==
    LET r == FindLoop(name, SubSeq(taxonomyLit, 1, Len(taxonomyLit) - 1), 1, PyNone)
    IN  IF Truthy(r.sameNameTaxonomy) THEN r.sameNameTaxonomy
        ELSE IF Truthy(r.lowercaseSameNameTaxonomy) THEN r.lowercaseSameNameTaxonomy
        ELSE PyNone

FindSameNameTaxonomy_FirstItem(name, taxonomyLit) ==
    IF Len(taxonomyLit) > 0 THEN PyDict(taxonomyLit[1]) ELSE PyNone

\* findSameNameTaxonomy(name, taxonomyLit)
FindSameNameTaxonomy(name, taxonomyLit) ==
    LET r == FindLoop(name, taxonomyLit, 1, PyNone)
    IN  IF Truthy(r.sameNameTaxonomy) THEN r.sameNameTaxonomy
        ELSE IF Truthy(r.lowercaseSameNameTaxonomy) THEN r.lowercaseSameNameTaxonomy
        ELSE PyNone

MaxCandidates == 3

\* The lists of at most `most` records, ids 1, 2, ... in list order.
CandidateLists(most) ==
    UNION { { [i \in 1..n |-> TaxonomyRecord(i, f[i])] : f \in [1..n -> Names] }
            : n \in 0..most }

FindInit ==
    /\ findName \in Names
    /\ findList \in CandidateLists(MaxCandidates)
    /\ findPc = "call"
    /\ findResult = PyNone
    /\ normIdle
    /\ resolveIdle
    /\ auxIdle

\* foundTaxonomy = crifanWordpress.findSameNameTaxonomy(name, taxonomyLit)
Find ==
    /\ findPc = "call"
    /\ findResult' = FindSameNameTaxonomy(findName, findList)
    /\ findPc' = "done"
    /\ UNCHANGED <<findName, findList, normVars, resolveVars, auxVars>>

FindNext == Find

SpecFind == FindInit /\ [][FindNext]_vars

----------------------------------------------------------------------------
(* The remote collection and the requests sent to it.                      *)

\* SearchTagPerPage (100 in the source).  The code uses it only as the
\* per_page parameter and in `len(page) >= perPage`; the model scales the
\* page size down so that full, short and empty pages all occur.
SearchTagPerPage == 2

\* self.apiCategories / self.apiTags, relative to the host
ApiCategories == "/wp-json/wp/v2/categories"
ApiTags == "/wp-json/wp/v2/tags"

\* searchTaxonomyUrl / createTaxonomyUrl
TaxonomyUrl(tax) ==
    IF tax = "category" THEN ApiCategories
    ELSE IF tax = "post_tag" THEN ApiTags
    ELSE ""

Min(a, b) == IF a <= b THEN a ELSE b

\* What the remote lists for ?search=name&page=curPage&per_page=perPage: the
\* curPage-th slice of the collection.  The remote's own filtering by the
\* search term is not the client's; the client gets records with other
\* names too (the Cocoa record listed for search=Mac).
RemotePage(coll, name, curPage, perPage) ==
    SubSeq(coll, (curPage - 1) * perPage + 1, Min(curPage * perPage, Len(coll)))

ErrorBody == PyDict([code |-> "jwt_auth_invalid_token"])

\* How the remote answers a search request: the page ("ok"), a transport
\* failure ("fail") or a 2xx body that is no JSON ("text").  A 2xx JSON scalar
\* comes out of processCommonResponse as (False, {}), which the callers treat
\* as they treat "fail"; SpecNorm covers it.
SearchReplyKinds == {"ok", "fail", "text"}

SearchReply(kind, coll, name, curPage, perPage) ==
    CASE kind = "ok" ->
            [status_code |-> 200, body |-> PyList(RemotePage(coll, name, curPage, perPage))]
      [] kind = "fail" -> [status_code |-> 403, body |-> ErrorBody]
      [] kind = "text" -> [status_code |-> 200, body |-> BodyText]

\* The identifier the remote gives the next record it creates.
NewId(coll) == Len(coll) + 1

\* The object the remote answers a successful creation with.
CreatedObject(coll, name, tax) ==
    LET rec == TaxonomyRecord(NewId(coll), name)
        common == [id |-> rec.id, slug |-> rec.slug, link |-> <<"link", rec.id>>,
                   name |-> name, description |-> "", taxonomy |-> tax]
    IN  IF tax = "category" THEN common @@ [parent |-> 0] ELSE common

\* How the remote answers a creation request: the created object ("ok"), a
\* transport failure ("fail"), a 2xx object without id ("noid"), a 2xx empty
\* object ("empty") or a 2xx body that is no JSON ("text").
CreateReplyKinds == {"ok", "fail", "noid", "empty", "text"}

CreateReply(kind, coll, name, tax) ==
    CASE kind = "ok" -> [status_code |-> 201, body |-> PyDict(CreatedObject(coll, name, tax))]
      [] kind = "fail" -> [status_code |-> 500, body |-> BodyText]
      [] kind = "noid" -> [status_code |-> 200, body |-> PyDict([code |-> "rest_no_route"])]
      [] kind = "empty" -> [status_code |-> 200, body |-> PyDict(EmptyDict)]
      [] kind = "text" -> [status_code |-> 200, body |-> BodyText]

\* The collection after a creation request answered in that way.
RemoteAfterCreate(kind, coll, name) ==
    IF kind = "ok" THEN Append(coll, TaxonomyRecord(NewId(coll), name)) ELSE coll

\* The GET request of getTaxonomySinglePage, as sent.
SearchRequest(name, tax, curPage, perPage) ==
    [method |-> "GET", url |-> TaxonomyUrl(tax),
     params |-> [search |-> name, page |-> curPage, per_page |-> perPage]]

\* An optional argument of createTaxonomy: None, a string or an integer.
ArgNone == [kind |-> "none"]

\* `if slug:` / `if description:` / `if parent:`: the argument's truth value.
ArgTruthy(a) ==
    CASE a.kind = "none" -> FALSE
      [] a.kind = "str" -> a.val # ""
      [] a.kind = "int" -> a.val # 0

PostDict_ParentForAll(name, tax, parent, slug, description) ==
    [name |-> name]
        @@ (IF ArgTruthy(slug) THEN [slug |-> slug.val] ELSE EmptyDict)
        @@ (IF ArgTruthy(description) THEN [description |-> description.val] ELSE EmptyDict)
        @@ (IF ArgTruthy(parent) THEN [parent |-> parent.val] ELSE EmptyDict)

\* postDict of createTaxonomy(name, taxonomy, parent, slug, description)
PostDict(name, tax, parent, slug, description) ==
    [name |-> name]
        @@ (IF ArgTruthy(slug) THEN [slug |-> slug.val] ELSE EmptyDict)
        @@ (IF ArgTruthy(description) THEN [description |-> description.val] ELSE EmptyDict)
        @@ (IF tax = "category" /\ ArgTruthy(parent) THEN [parent |-> parent.val] ELSE EmptyDict)

\* The POST request of createTaxonomy, as sent.
CreateRequest(name, tax, parent, slug, description) ==
    [method |-> "POST", url |-> TaxonomyUrl(tax),
     json |-> PostDict(name, tax, parent, slug, description)]

\* An entry of the request history: the request, the loop iteration that
\* sent it, the response and what processCommonResponse made of it.
Sent(req, num, r) ==
    [req |-> req, curNum |-> num, resp |-> r, result |-> ProcessCommonResponse(r)]

----------------------------------------------------------------------------
(* getTaxonomyIdList(nameList, taxonomy), one action per request it sends.  *)

MaxNames == 2

\* The names given to resolve, and the names of the remote's records.
ResolveNames == { <<"M", "c">>, <<"m", "c">>, <<"c", "c">> }
RemoteNames == { <<"M", "c">>, <<"m", "c">> }

\* The remote holds up to a page and a half when the call starts; the
\* records created during the call come on top.
MaxRemote == SearchTagPerPage + 1

SeqsUpTo(S, n) == UNION { [1..k -> S] : k \in 0..n }

\* The remote collections at the time of the call: ids 1, 2, ... in order.
RemoteCollections ==
    { [i \in 1..Len(f) |-> TaxonomyRecord(i, f[i])] : f \in SeqsUpTo(RemoteNames, MaxRemote) }

Init ==
    /\ nameList \in SeqsUpTo(ResolveNames, MaxNames)
    /\ taxonomy \in TaxonomyValues
    /\ remote \in RemoteCollections
    /\ pc = "start"
    /\ curNum = 0
    /\ taxonomyIdList = <<>>
    /\ firstPageRespList = <<>>
    /\ restRespAllItemList = <<>>
    /\ restCurPage = 0
    /\ isSearhOk = FALSE
    /\ existedTaxonomy = PyNone
    /\ requests = <<>>
    /\ getAllResults = <<>>
    /\ iterations = <<>>
    /\ normIdle
    /\ findIdle
    /\ auxIdle

eachTaxonomyName == nameList[curNum]

searchLocals == <<firstPageRespList, restRespAllItemList, restCurPage>>

IsPageFull_Strict(itemNum, perPage) == itemNum > perPage

\* len(page) >= perPage
IsPageFull(itemNum, perPage) == itemNum >= perPage

\* curTaxonomy["name"], curTaxonomy["id"], curTaxonomy["slug"] in the
\* logging.info call: a KeyError (TypeError on a list) when one is missing.
LogFieldsRaise(curTaxonomy) ==
    \/ curTaxonomy.kind # "dict"
    \/ ~({"name", "id", "slug"} \subseteq DOMAIN curTaxonomy.val)

AppendId_Prepend(idList, curTaxonomy) ==
    IF Truthy(curTaxonomy) THEN <<curTaxonomy.val["id"]>> \o idList ELSE idList

\* if curTaxonomy: taxonomyIdList.append(curTaxonomy["id"])
AppendId(idList, curTaxonomy) ==
    IF Truthy(curTaxonomy) THEN Append(idList, curTaxonomy.val["id"]) ELSE idList

\* The exception leaves getTaxonomyIdList: nothing is returned.
Raise ==
    /\ pc' = "raised"
    /\ UNCHANGED <<curNum, taxonomyIdList, isSearhOk, existedTaxonomy, iterations>>

\* The end of a loop iteration (lines 447-452), then the next name, or the
\* return once the list is through.
FinishIteration(searchOk, existed, createCalled, createOk, created, curTaxonomy) ==
    /\ taxonomyIdList' = AppendId(taxonomyIdList, curTaxonomy)
    /\ iterations' = Append(iterations,
            [name |-> eachTaxonomyName, isSearhOk |-> searchOk,
             existedTaxonomy |-> existed, createCalled |-> createCalled,
             isCreateOk |-> createOk, createdTaxonomy |-> created,
             curTaxonomy |-> curTaxonomy])
    /\ IF curNum = Len(nameList)
       THEN pc' = "done" /\ curNum' = curNum
       ELSE pc' = "search_first" /\ curNum' = curNum + 1
    /\ isSearhOk' = FALSE
    /\ existedTaxonomy' = PyNone

IsFound_Never(searchOk, existed) == FALSE

IsFound_SearchOk(searchOk, existed) == searchOk

\* isSearhOk and existedTaxonomy: the condition of the found branch.
IsFound(searchOk, existed) == searchOk /\ Truthy(existed)

\* getAllTaxonomy returns (isGetAllOk, respInfo): the rest of searchTaxonomy
\* (lines 406-412) and getTaxonomyIdList up to its next request (432-439).
AfterGetAll(isGetAllOk, respInfo) ==
    LET searchOk == isGetAllOk
        final == IF isGetAllOk
                 THEN FindSameNameTaxonomy(eachTaxonomyName, respInfo.val)
                 ELSE PyNone
    IN  /\ getAllResults' = Append(getAllResults,
                [curNum |-> curNum, isGetAllOk |-> isGetAllOk, respInfo |-> respInfo])
        /\ IF IsFound(searchOk, final)
           THEN IF LogFieldsRaise(final)
                THEN Raise
                ELSE FinishIteration(searchOk, final, FALSE, FALSE, PyNone, final)
           ELSE /\ pc' = "create"
                /\ isSearhOk' = searchOk
                /\ existedTaxonomy' = final
                /\ UNCHANGED <<curNum, taxonomyIdList, iterations>>

Extend_Front(list, items) == items \o list

\* list.extend(items) (lines 376 and 380): the items go after the list's.
Extend(list, items) == list \o items

LoopContinues_Once(isRestEachPageOk, isRestEachPageRespFull) == FALSE

\* while (isRestEachPageOk and isRestEachPageRespFull), tested after a turn
LoopContinues(isRestEachPageOk, isRestEachPageRespFull) ==
    isRestEachPageOk /\ isRestEachPageRespFull

RestTurn_Retry(isRestEachPageOk, isRestEachPageRespFull, curPage) ==
    IF isRestEachPageOk
    THEN [restCurPage |-> curPage + 1, continues |-> isRestEachPageRespFull]
    ELSE [restCurPage |-> curPage, continues |-> TRUE]

\* The end of a turn of the while loop: restCurPage += 1 (line 376), whatever
\* the page was, and the loop's test (line 370).
RestTurn(isRestEachPageOk, isRestEachPageRespFull, curPage) ==
    [restCurPage |-> curPage + 1,
     continues |-> LoopContinues(isRestEachPageOk, isRestEachPageRespFull)]

GetAllFailure_Swallowed(firstPageRespInfo) ==
    [isGetAllOk |-> TRUE, respInfo |-> PyList(<<>>)]

\* The else branch of getAllTaxonomy (lines 383-385): page 1 was not ok, so
\* isGetAllOk = False and respInfo = firstPageRespInfo.
GetAllFailure(firstPageRespInfo) ==
    [isGetAllOk |-> FALSE, respInfo |-> firstPageRespInfo]

\* for curIdx, eachTaxonomyName in enumerate(nameList): the call starts.
Enter ==
    /\ pc = "start"
    /\ taxonomyIdList' = <<>>
    /\ IF Len(nameList) = 0
       THEN pc' = "done" /\ curNum' = 0
       ELSE pc' = "search_first" /\ curNum' = 1
    /\ UNCHANGED <<nameList, taxonomy, remote, searchLocals, isSearhOk,
                   existedTaxonomy, requests, getAllResults, iterations>>
    /\ UNCHANGED <<normVars, findVars, auxVars>>

\* getAllTaxonomy up to and including the page-1 request (lines 351-364).
GetFirstPage ==
    /\ pc = "search_first"
    /\ \E kind \in SearchReplyKinds :
        LET perPage == SearchTagPerPage
            firstPageNum == 1
            r == SearchReply(kind, remote, eachTaxonomyName, firstPageNum, perPage)
            sent == Sent(SearchRequest(eachTaxonomyName, taxonomy, firstPageNum, perPage),
                         curNum, r)
            res == sent.result
        IN  /\ requests' = Append(requests, sent)
            /\ IF res.raised
               THEN Raise /\ UNCHANGED <<searchLocals, getAllResults>>
               ELSE IF res.isOk
                    THEN IF IsPageFull(Len(res.respInfo.val), perPage)
                         THEN /\ pc' = "search_rest"
                              /\ firstPageRespList' = res.respInfo.val
                              /\ restRespAllItemList' = <<>>
                              /\ restCurPage' = firstPageNum + 1
                              /\ UNCHANGED <<curNum, taxonomyIdList, isSearhOk,
                                             existedTaxonomy, getAllResults, iterations>>
                         ELSE /\ AfterGetAll(TRUE, res.respInfo)
                              /\ UNCHANGED searchLocals
                    ELSE /\ LET failed == GetAllFailure(res.respInfo)
                            IN  AfterGetAll(failed.isGetAllOk, failed.respInfo)
                         /\ UNCHANGED searchLocals
    /\ UNCHANGED <<nameList, taxonomy, remote>>
    /\ UNCHANGED <<normVars, findVars, auxVars>>

\* One turn of the while loop of getAllTaxonomy (lines 370-378) and, when
\* the loop ends, lines 380-387.  isGetAllOk was set at line 359 and is not
\* touched by the loop.
GetRestPage ==
    /\ pc = "search_rest"
    /\ \E kind \in SearchReplyKinds :
        LET perPage == SearchTagPerPage
            r == SearchReply(kind, remote, eachTaxonomyName, restCurPage, perPage)
            sent == Sent(SearchRequest(eachTaxonomyName, taxonomy, restCurPage, perPage),
                         curNum, r)
            res == sent.result
        IN  /\ requests' = Append(requests, sent)
            /\ IF res.raised
               THEN Raise /\ UNCHANGED <<searchLocals, getAllResults>>
               ELSE LET isRestEachPageOk == res.isOk
                        isRestEachPageRespFull ==
                            IF isRestEachPageOk
                            THEN IsPageFull(Len(res.respInfo.val), perPage)
                            ELSE TRUE
                        restAll == IF isRestEachPageOk
                                   THEN Extend(restRespAllItemList, res.respInfo.val)
                                   ELSE restRespAllItemList
                        turn == RestTurn(isRestEachPageOk, isRestEachPageRespFull,
                                         restCurPage)
                    IN  /\ restRespAllItemList' = restAll
                        /\ restCurPage' = turn.restCurPage
                        /\ UNCHANGED firstPageRespList
                        /\ IF turn.continues
                           THEN UNCHANGED <<pc, curNum, taxonomyIdList, isSearhOk,
                                           existedTaxonomy, getAllResults, iterations>>
                           ELSE AfterGetAll(TRUE, PyList(Extend(firstPageRespList, restAll)))
    /\ UNCHANGED <<nameList, taxonomy, remote>>
    /\ UNCHANGED <<normVars, findVars, auxVars>>

\* isCreateOk and createdTaxonomy: the condition of the created branch.
IsCreated(createOk, created) == createOk /\ Truthy(created)

\* createTaxonomy(eachTaxonomyName, taxonomy) and the rest of the iteration
\* (lines 439-452).
CreateTaxonomy ==
    /\ pc = "create"
    /\ \E kind \in CreateReplyKinds :
        LET r == CreateReply(kind, remote, eachTaxonomyName, taxonomy)
            sent == Sent(CreateRequest(eachTaxonomyName, taxonomy, ArgNone, ArgNone, ArgNone),
                         curNum, r)
            res == sent.result
        IN  /\ requests' = Append(requests, sent)
            /\ remote' = RemoteAfterCreate(kind, remote, eachTaxonomyName)
            /\ IF res.raised
               THEN Raise
               ELSE IF IsCreated(res.isOk, res.respInfo)
                    THEN IF LogFieldsRaise(res.respInfo)
                         THEN Raise
                         ELSE FinishIteration(isSearhOk, existedTaxonomy, TRUE,
                                              res.isOk, res.respInfo, res.respInfo)
                    ELSE FinishIteration(isSearhOk, existedTaxonomy, TRUE,
                                         res.isOk, res.respInfo, PyNone)
    /\ UNCHANGED <<nameList, taxonomy, searchLocals, getAllResults>>
    /\ UNCHANGED <<normVars, findVars, auxVars>>

Next == Enter \/ GetFirstPage \/ GetRestPage \/ CreateTaxonomy

Spec == Init /\ [][Next]_vars

\* The same call under the assumption that every request it sends is
\* answered (self.reqSession.get / post return), so that the loops go on:
\* short name lists against collections of up to two full pages.
MaxLiveNames == 1

LiveRemotes ==
    { [i \in 1..Len(f) |-> TaxonomyRecord(i, f[i])] :
        f \in SeqsUpTo(RemoteNames, 2 * SearchTagPerPage) }

LiveInit ==
    /\ nameList \in SeqsUpTo(ResolveNames, MaxLiveNames)
    /\ taxonomy \in TaxonomyValues
    /\ remote \in LiveRemotes
    /\ pc = "start"
    /\ curNum = 0
    /\ taxonomyIdList = <<>>
    /\ firstPageRespList = <<>>
    /\ restRespAllItemList = <<>>
    /\ restCurPage = 0
    /\ isSearhOk = FALSE
    /\ existedTaxonomy = PyNone
    /\ requests = <<>>
    /\ getAllResults = <<>>
    /\ iterations = <<>>
    /\ normIdle
    /\ findIdle
    /\ auxIdle

SpecLive ==
    /\ LiveInit /\ [][Next]_vars
    /\ WF_vars(Enter) /\ WF_vars(GetFirstPage) /\ WF_vars(GetRestPage)
    /\ WF_vars(CreateTaxonomy)

----------------------------------------------------------------------------
(* createPost(title, content, dateStr, slug, categoryNameList,             *)
(* tagNameList, status, postFormat).  The two calls of getTaxonomyIdList   *)
(* are the actions Enter, GetFirstPage, GetRestPage and CreateTaxonomy     *)
(* above, run on the categories collection and then on the tags one.  An   *)
(* exception that leaves getTaxonomyIdList leaves createPost too: the run  *)
(* ends with pc = "raised" and no posts request.                           *)

\* self.apiPosts, relative to the host
ApiPosts == "/wp-json/wp/v2/posts"

MaxPostNames == 1

PostNames == { <<"M", "c">>, <<"c", "c">> }

\* The categories / tags collections at the time of the call: empty, or a
\* full page.
PostRemotes == { c \in RemoteCollections :
                   /\ Len(c) \in {0, SearchTagPerPage}
                   /\ \A i \in 1..Len(c) : c[i].name = <<"m", "c">> }

\* title, content, dateStr, slug, status, postFormat as passed in.
PostArgs == [title |-> "title", content |-> "<html/>", dateStr |-> "2020-08-17T10:16:34",
             slug |-> "slug", status |-> "draft", postFormat |-> "standard"]

PostInit ==
    /\ postPc = "start"
    /\ categoryNameList \in SeqsUpTo(PostNames, MaxPostNames)
    /\ tagNameList \in SeqsUpTo(PostNames, MaxPostNames)
    /\ categoryIdList = <<>>
    /\ tagIdList = <<>>
    /\ remote \in PostRemotes
    /\ otherRemote \in PostRemotes
    /\ postResult = NotCalled
    /\ nameList = <<>> /\ taxonomy = "category" /\ pc = "idle"
    /\ curNum = 0 /\ taxonomyIdList = <<>>
    /\ firstPageRespList = <<>> /\ restRespAllItemList = <<>> /\ restCurPage = 0
    /\ isSearhOk = FALSE /\ existedTaxonomy = PyNone
    /\ requests = <<>> /\ getAllResults = <<>> /\ iterations = <<>>
    /\ normIdle
    /\ findIdle
    /\ tokenIdle /\ createIdle /\ slugIdle /\ raceIdle

\* `if categoryNameList:` / `if tagNameList:`: a list is true when not empty.
ListTruthy(names) == Len(names) > 0

resolveLocals == <<curNum, taxonomyIdList, searchLocals, isSearhOk, existedTaxonomy,
                   requests, getAllResults, iterations>>

\* self.getTaxonomyIdList(names, taxonomy=tax) is called.
CallGetTaxonomyIdList(names, tax) ==
    /\ nameList' = names
    /\ taxonomy' = tax
    /\ pc' = "start"

\* The tags: `if tagNameList:` (line 187) and the call at 189, or on to the
\* posts request.
ToTags ==
    IF ListTruthy(tagNameList)
    THEN /\ CallGetTaxonomyIdList(tagNameList, "post_tag")
         /\ remote' = otherRemote
         /\ otherRemote' = remote
         /\ postPc' = "tags"
    ELSE /\ postPc' = "send"
         /\ pc' = "idle"
         /\ UNCHANGED <<nameList, taxonomy, remote, otherRemote>>

\* Lines 179-184: the id lists start empty; `if categoryNameList:`.
CreatePostEnter ==
    /\ postPc = "start"
    /\ categoryIdList' = <<>>
    /\ tagIdList' = <<>>
    /\ IF ListTruthy(categoryNameList)
       THEN /\ CallGetTaxonomyIdList(categoryNameList, "category")
            /\ postPc' = "categories"
            /\ UNCHANGED <<remote, otherRemote>>
       ELSE ToTags
    /\ UNCHANGED <<categoryNameList, tagNameList, postResult, resolveLocals>>
    /\ UNCHANGED <<normVars, findVars, tokenVars, createVars, slugVars, raceVars>>

\* categoryIdList = self.getTaxonomyIdList(...) returned (line 184).
AfterCategories ==
    /\ postPc = "categories" /\ pc = "done"
    /\ categoryIdList' = taxonomyIdList
    /\ ToTags
    /\ UNCHANGED <<categoryNameList, tagNameList, tagIdList, postResult, resolveLocals>>
    /\ UNCHANGED <<normVars, findVars, tokenVars, createVars, slugVars, raceVars>>

\* tagIdList = self.getTaxonomyIdList(...) returned (line 189).
AfterTags ==
    /\ postPc = "tags" /\ pc = "done"
    /\ tagIdList' = taxonomyIdList
    /\ postPc' = "send"
    /\ pc' = "idle"
    /\ UNCHANGED <<categoryNameList, tagNameList, categoryIdList, otherRemote, postResult>>
    /\ UNCHANGED <<nameList, taxonomy, remote, resolveLocals>>
    /\ UNCHANGED <<normVars, findVars, tokenVars, createVars, slugVars, raceVars>>

CreatePostDict_Swapped(args, catIds, tagIds) ==
    [title |-> args.title, content |-> args.content, date |-> args.dateStr,
     slug |-> args.slug, status |-> args.status, format |-> args.postFormat,
     categories |-> tagIds, tags |-> catIds]

\* postDict of createPost (lines 192-203)
CreatePostDict(args, catIds, tagIds) ==
    [title |-> args.title, content |-> args.content, date |-> args.dateStr,
     slug |-> args.slug, status |-> args.status, format |-> args.postFormat,
     categories |-> catIds, tags |-> tagIds]

\* The POST request of createPost, as sent.
CreatePostRequest(args, catIds, tagIds) ==
    [method |-> "POST", url |-> ApiPosts, json |-> CreatePostDict(args, catIds, tagIds)]

\* How the remote answers the posts request: the created post or a failure.
PostReplyKinds == {"ok", "fail"}

PostReply(kind, args) ==
    CASE kind = "ok" ->
            [status_code |-> 201,
             body |-> PyDict([id |-> 70393, slug |-> args.slug, link |-> "https://host/slug/",
                              type |-> "post", guid |-> [rendered |-> "https://host/?p=70393"],
                              title |-> [rendered |-> args.title]])]
      [] kind = "fail" -> [status_code |-> 500, body |-> BodyText]

\* Lines 192-218: the posts request and the return.
SendPost ==
    /\ postPc = "send"
    /\ \E kind \in PostReplyKinds :
        LET sent == Sent(CreatePostRequest(PostArgs, categoryIdList, tagIdList), 0,
                         PostReply(kind, PostArgs))
        IN  /\ requests' = Append(requests, sent)
            /\ postResult' = sent.result
    /\ postPc' = "done"
    /\ UNCHANGED <<categoryNameList, tagNameList, categoryIdList, tagIdList, otherRemote>>
    /\ UNCHANGED <<nameList, taxonomy, remote, pc, curNum, taxonomyIdList, searchLocals,
                   isSearhOk, existedTaxonomy, getAllResults, iterations>>
    /\ UNCHANGED <<normVars, findVars, tokenVars, createVars, slugVars, raceVars>>

PostNext ==
    \/ CreatePostEnter \/ AfterCategories \/ AfterTags \/ SendPost
    \/ Enter \/ GetFirstPage \/ GetRestPage \/ CreateTaxonomy

SpecPost == PostInit /\ [][PostNext]_vars

----------------------------------------------------------------------------
(* validateToken() *)

JWT_TOKEN_VALID_CODE == "jwt_auth_valid_token"
JWT_TOKEN_INVALID_CODE == "jwt_auth_invalid_token"

\* self.apiValidateToken, relative to the host
ApiValidateToken == "/wp-json/jwt-auth/v1/token/validate"

\* The fields a body of the token endpoint may hold.
TokenKeys == {"code", "data", "message", "id", "slug", "link"}

TokenObject(code) ==
    [code |-> code, data |-> [status |-> 200], message |-> "Expired token",
     id |-> 1, slug |-> "s", link |-> "l"]

TokenBodies ==
    {BodyText, BodyScalar, PyList(<<>>), PyList(<<[code |-> JWT_TOKEN_VALID_CODE]>>)}
        \cup { PyDict(Restrict(TokenObject(code), K)) :
                    code \in {JWT_TOKEN_VALID_CODE, JWT_TOKEN_INVALID_CODE},
                    K \in SUBSET TokenKeys }

TokenResponses == { [status_code |-> st, body |-> b] : st \in StatusCodes, b \in TokenBodies }

TokenInit ==
    /\ tokenPc = "call"
    /\ tokenResp \in TokenResponses
    /\ tokenRequests = <<>>
    /\ tokenResult = NotCalled
    /\ normIdle /\ findIdle /\ resolveIdle
    /\ postIdle /\ createIdle /\ slugIdle /\ raceIdle

\* The POST request of validateToken, as sent: headers only, no body.
ValidateTokenRequest == [method |-> "POST", url |-> ApiValidateToken]

\* respCode == crifanWordpress.JWT_TOKEN_VALID_CODE
IsValidCode(respCode) == respCode = JWT_TOKEN_VALID_CODE

\* Lines 84-91 of validateToken, on the response received.  respInfo["code"]
\* is a KeyError on a dict without "code" and a TypeError on a list.
ValidateTokenOn(r) ==
    LET res == ProcessCommonResponse(r) IN
    IF res.raised THEN Raised
    ELSE IF res.isOk
         THEN IF res.respInfo.kind # "dict" \/ "code" \notin DOMAIN res.respInfo.val
              THEN Raised
              ELSE Returned(IsValidCode(res.respInfo.val["code"]), res.respInfo)
         ELSE Returned(FALSE, res.respInfo)

\* validateToken()
ValidateToken ==
    /\ tokenPc = "call"
    /\ tokenRequests' = Append(tokenRequests, ValidateTokenRequest)
    /\ tokenResult' = ValidateTokenOn(tokenResp)
    /\ tokenPc' = "done"
    /\ UNCHANGED tokenResp
    /\ UNCHANGED <<normVars, findVars, resolveVars, postVars, createVars, slugVars, raceVars>>

TokenNext == ValidateToken

SpecToken == TokenInit /\ [][TokenNext]_vars

----------------------------------------------------------------------------
(* createTaxonomy(name, taxonomy, parent, slug, description), called on    *)
(* its own with every combination of optional arguments.                   *)

ArgStr(x) == [kind |-> "str", val |-> x]
ArgInt(n) == [kind |-> "int", val |-> n]

\* parent: None, 0 or an identifier; slug, description: None, "" or a text.
ParentArgs == {ArgNone, ArgInt(0), ArgInt(4624)}
SlugArgs == {ArgNone, ArgStr(""), ArgStr("mac-2")}
DescriptionArgs == {ArgNone, ArgStr(""), ArgStr("about Mac")}

CreateArgSets ==
    [name : ResolveNames, taxonomy : TaxonomyValues, parent : ParentArgs,
     slug : SlugArgs, description : DescriptionArgs]

CreateInit ==
    /\ createPc = "call"
    /\ createArgs \in CreateArgSets
    /\ createRequests = <<>>
    /\ createResult = NotCalled
    /\ normIdle /\ findIdle /\ resolveIdle
    /\ postIdle /\ tokenIdle /\ slugIdle /\ raceIdle

\* createTaxonomy(...): the request built in lines 246-272 is sent, and what
\* processCommonResponse makes of the answer is returned (278-282).
CreateTaxonomyCall ==
    /\ createPc = "call"
    /\ \E kind \in CreateReplyKinds :
        LET a == createArgs
            sent == Sent(CreateRequest(a.name, a.taxonomy, a.parent, a.slug, a.description),
                         0, CreateReply(kind, <<>>, a.name, a.taxonomy))
        IN  /\ createRequests' = Append(createRequests, sent)
            /\ createResult' = sent.result
    /\ createPc' = "done"
    /\ UNCHANGED createArgs
    /\ UNCHANGED <<normVars, findVars, resolveVars, postVars, tokenVars, slugVars, raceVars>>

CreateNext == CreateTaxonomyCall

SpecCreate == CreateInit /\ [][CreateNext]_vars

----------------------------------------------------------------------------
(* generateSlug(enTitle).  A string is a tuple of characters.  re.sub is   *)
(* modelled as Python runs it: the leftmost match is replaced, the scan    *)
(* goes on after the end of that match (matches do not overlap), and \w+,  *)
(* \s+ and _+ take the longest run.                                        *)

\* The characters \w matches, among those in use: letters and underscore.
WordChars ==
    {"a", "c", "d", "e", "f", "g", "h", "i", "l", "m", "n", "o", "p", "r", "s",
     "t", "u", "v", "w", "x", "G", "I", "M", "P", "T", "_"}
IsWordChar(ch) == ch \in WordChars

\* The characters \s matches, among those in use.
SpaceChars == {" ", "<LF>"}
IsSpaceChar(ch) == ch \in SpaceChars

\* The index after the longest run of characters of the set C that starts at
\* i (i itself when s[i] is not in C or i is beyond the end).
RunEnd(s, i, C) ==
    CHOOSE j \in i..(Len(s) + 1) :
        /\ \A k \in i..(j - 1) : s[k] \in C
        /\ j = Len(s) + 1 \/ s[j] \notin C

\* s[i .. i+len(w)-1] is the word w, compared as re.I compares.
WordAt(s, i, w) ==
    /\ i >= 1 /\ i + Len(w) - 1 <= Len(s)
    /\ Lower(SubSeq(s, i, i + Len(w) - 1)) = Lower(w)

\* The patterns of generateSlug.
ContractionP == [kind |-> "contraction"]
RemoveInsideP(eachWord) == [kind |-> "inside", word |-> eachWord]
RemoveStartP(eachWord) == [kind |-> "start", word |-> eachWord]
RemoveEndP(eachWord) == [kind |-> "end", word |-> eachWord]
NonWordP == [kind |-> "nonword"]
UnderscoresP == [kind |-> "underscores"]

\* `$`: the end of the string, or just before a newline that ends it.
AtDollar(s, j) == j = Len(s) + 1 \/ (j = Len(s) /\ s[j] = "<LF>")

\* Where a match of the pattern that starts at i ends (the index after its
\* last character), or 0 when the pattern does not match at i.
MatchEnd(pat, s, i) ==
    CASE pat.kind = "contraction" ->
            \* (\w+)'(\w+)
            LET j == RunEnd(s, i, WordChars) IN
            IF j > i /\ j + 1 <= Len(s) /\ s[j] = "'" /\ IsWordChar(s[j + 1])
            THEN RunEnd(s, j + 1, WordChars) ELSE 0
      [] pat.kind = "inside" ->
            \* \s+{eachWord}\s+
            LET j == RunEnd(s, i, SpaceChars)
                k == j + Len(pat.word)
            IN  IF j > i /\ WordAt(s, j, pat.word) /\ k <= Len(s) /\ IsSpaceChar(s[k])
                THEN RunEnd(s, k, SpaceChars) ELSE 0
      [] pat.kind = "start" ->
            \* ^{eachWord}\s+
            LET k == 1 + Len(pat.word) IN
            IF i = 1 /\ WordAt(s, 1, pat.word) /\ k <= Len(s) /\ IsSpaceChar(s[k])
            THEN RunEnd(s, k, SpaceChars) ELSE 0
      [] pat.kind = "end" ->
            \* \s+{eachWord}$
            LET j == RunEnd(s, i, SpaceChars)
                k == j + Len(pat.word)
            IN  IF j > i /\ WordAt(s, j, pat.word) /\ AtDollar(s, k) THEN k ELSE 0
      [] pat.kind = "nonword" ->
            \* [^\w]
            IF ~IsWordChar(s[i]) THEN i + 1 ELSE 0
      [] pat.kind = "underscores" ->
            \* _+
            IF s[i] = "_" THEN RunEnd(s, i, {"_"}) ELSE 0

\* re.sub(pat, repl, s), from position p on.
RECURSIVE ReSubFrom(_, _, _, _)
ReSubFrom(pat, repl, s, p) ==
    LET starts == { i \in p..Len(s) : MatchEnd(pat, s, i) > 0 } IN
    IF starts = {} THEN SubSeq(s, p, Len(s))
    ELSE LET i == CHOOSE x \in starts : \A y \in starts : x <= y
         IN  SubSeq(s, p, i - 1) \o repl \o ReSubFrom(pat, repl, s, MatchEnd(pat, s, i))

ReSub(pat, repl, s) == ReSubFrom(pat, repl, s, 1)

\* removeWordList
RemoveWordList ==
    << <<"t", "o">>, <<"t", "h", "e">>, <<"a">>, <<"a", "r", "e">>, <<"i", "s">>,
       <<"a", "n", "d">>, <<"o", "f">>, <<"i", "n">>, <<"a", "t">> >>

\* The replacement of line 486: "\1\2" in a string literal that is not raw
\* is the two control characters U+0001 U+0002, not group references.
ContractionRepl == <<"<01>", "<02>">>

\* One turn of `for eachWord in removeWordList` (lines 498-507).
RemoveWord(s, eachWord) ==
    LET inside == ReSub(RemoveInsideP(eachWord), <<" ">>, s)
        start == ReSub(RemoveStartP(eachWord), <<>>, inside)
    IN  ReSub(RemoveEndP(eachWord), <<>>, start)

\* The string after the first n turns of the loop.
RECURSIVE RemoveWords(_, _)
RemoveWords(s, n) ==
    IF n = 0 THEN s ELSE RemoveWord(RemoveWords(s, n - 1), RemoveWordList[n])

GenerateSlug_UnderscoresFirst(title) ==
    IF title = <<>> THEN title
    ELSE LET lowered == Lower(title)
             merged == ReSub(ContractionP, ContractionRepl, lowered)
             replaced == ReSub(NonWordP, <<"_">>, merged)
             removed == RemoveWords(replaced, Len(RemoveWordList))
         IN  ReSub(UnderscoresP, <<"_">>, removed)

\* generateSlug(enTitle)
GenerateSlug(title) ==
    IF title = <<>> THEN title
    ELSE LET lowered == Lower(title)
             merged == ReSub(ContractionP, ContractionRepl, lowered)
             removed == RemoveWords(merged, Len(RemoveWordList))
             replaced == ReSub(NonWordP, <<"_">>, removed)
         IN  ReSub(UnderscoresP, <<"_">>, replaced)

MaxTitlePieces == 5

\* The pieces titles are put together from: words (a stop word with a
\* capital among them), a blank, an apostrophe and a punctuation mark.
TitlePieces == { <<"x">>, <<"T", "h", "e">>, <<"a">>, <<" ">>, <<"'">>, <<"!">> }

RECURSIVE Concat(_)
Concat(pieces) == IF pieces = <<>> THEN <<>> ELSE Head(pieces) \o Concat(Tail(pieces))

MaxTitleWords == 4

\* The words of the titles made of words with one blank between them.
TitleWords == { <<"x">>, <<"T", "h", "e">>, <<"a">>, <<"t", "o">> }

RECURSIVE JoinWords(_)
JoinWords(words) ==
    IF Len(words) = 1 THEN Head(words)
    ELSE Head(words) \o <<" ">> \o JoinWords(Tail(words))

\* The title of the docstring's example (line 471):
\* 'Give the PIP replacement source to the Mac to speed up the download'
ExampleTitle ==
    <<"G", "i", "v", "e", " ", "t", "h", "e", " ", "P", "I", "P", " ", "r",
      "e", "p", "l", "a", "c", "e", "m", "e", "n", "t", " ", "s", "o", "u",
      "r", "c", "e", " ", "t", "o", " ", "t", "h", "e", " ", "M", "a", "c",
      " ", "t", "o", " ", "s", "p", "e", "e", "d", " ", "u", "p", " ", "t",
      "h", "e", " ", "d", "o", "w", "n", "l", "o", "a", "d">>

\* Every title of up to `pieces` pieces, every title of one to `words`
\* words, and the example.
Titles(pieces, words) ==
    { Concat(ps) : ps \in SeqsUpTo(TitlePieces, pieces) }
        \cup { JoinWords(ws) : ws \in SeqsUpTo(TitleWords, words) \ {<<>>} }
        \cup { ExampleTitle }

SlugInit ==
    /\ slugPc = "call"
    /\ enTitle \in Titles(MaxTitlePieces, MaxTitleWords)
    /\ slugResult = <<>>
    /\ normIdle /\ findIdle /\ resolveIdle
    /\ postIdle /\ tokenIdle /\ createIdle /\ raceIdle

\* slug = crifanWordpress.generateSlug(enTitle)
GenerateSlugCall ==
    /\ slugPc = "call"
    /\ slugResult' = GenerateSlug(enTitle)
    /\ slugPc' = "done"
    /\ UNCHANGED enTitle
    /\ UNCHANGED <<normVars, findVars, resolveVars, postVars, tokenVars, createVars,
                   raceVars>>

SlugNext == GenerateSlugCall

SpecSlug == SlugInit /\ [][SlugNext]_vars

----------------------------------------------------------------------------
(* Two clients, each calling getTaxonomyIdList([name], taxonomy) against    *)
(* the same remote collection.  Each call is the sequential code above; the *)
(* variables of the resolver are the locals of the call that is running and *)
(* `other` holds those of the call that waits.  The calls share nothing but *)
(* the remote, so the only points where their order matters are between two *)
(* requests.                                                                *)

\* The locals of a call at its start.
CallStart ==
    [pc |-> "start", curNum |-> 0, taxonomyIdList |-> <<>>,
     firstPageRespList |-> <<>>, restRespAllItemList |-> <<>>, restCurPage |-> 0,
     isSearhOk |-> FALSE, existedTaxonomy |-> PyNone]

RaceInit ==
    /\ nameList \in { <<n>> : n \in ResolveNames }
    /\ taxonomy \in TaxonomyValues
    /\ remote \in RemoteCollections
    /\ remote0 = remote
    /\ pc = CallStart.pc
    /\ curNum = CallStart.curNum
    /\ taxonomyIdList = CallStart.taxonomyIdList
    /\ firstPageRespList = CallStart.firstPageRespList
    /\ restRespAllItemList = CallStart.restRespAllItemList
    /\ restCurPage = CallStart.restCurPage
    /\ isSearhOk = CallStart.isSearhOk
    /\ existedTaxonomy = CallStart.existedTaxonomy
    /\ client = 1
    /\ other = CallStart
    /\ marks = <<>>
    /\ requests = <<>>
    /\ getAllResults = <<>>
    /\ iterations = <<>>
    /\ normIdle
    /\ findIdle
    /\ postIdle /\ tokenIdle /\ createIdle /\ slugIdle

\* The running call has sent a request since it took over, or is over.
RanSinceSwitch ==
    IF marks = <<>> \/ pc \in {"done", "raised"}
    THEN TRUE
    ELSE marks[Len(marks)].len < Len(requests)

\* The running call waits (between two of its requests, or once it is over)
\* and the other client's call runs on.
Switch ==
    /\ client \in {1, 2}
    /\ other.pc \notin {"done", "raised"}
    /\ RanSinceSwitch
    /\ other' = [pc |-> pc, curNum |-> curNum, taxonomyIdList |-> taxonomyIdList,
                 firstPageRespList |-> firstPageRespList,
                 restRespAllItemList |-> restRespAllItemList,
                 restCurPage |-> restCurPage, isSearhOk |-> isSearhOk,
                 existedTaxonomy |-> existedTaxonomy]
    /\ pc' = other.pc
    /\ curNum' = other.curNum
    /\ taxonomyIdList' = other.taxonomyIdList
    /\ firstPageRespList' = other.firstPageRespList
    /\ restRespAllItemList' = other.restRespAllItemList
    /\ restCurPage' = other.restCurPage
    /\ isSearhOk' = other.isSearhOk
    /\ existedTaxonomy' = other.existedTaxonomy
    /\ client' = 3 - client
    /\ marks' = Append(marks, [client |-> 3 - client, len |-> Len(requests)])
    /\ UNCHANGED <<nameList, taxonomy, remote, remote0, requests, getAllResults,
                   iterations>>
    /\ UNCHANGED <<normVars, findVars, postVars, tokenVars, createVars, slugVars>>

RaceNext == Switch \/ Enter \/ GetFirstPage \/ GetRestPage \/ CreateTaxonomy

SpecRace == RaceInit /\ [][RaceNext]_vars

----------------------------------------------------------------------------
(* Claims about processCommonResponse (SpecNorm) *)

NormDone == normPc = "done"
NormReturned == NormDone /\ normResult.raised = FALSE
BodyIsDictWithId == resp.body.kind = "dict" /\ "id" \in DOMAIN resp.body.val

\* C8: whenever processCommonResponse returns ok = false, the payload is
\* exactly the error detail {errCode: the status code, errMsg: the raw body}.
C8_FailurePayloadIsErrorDetail ==
    (NormReturned /\ normResult.isOk = FALSE)
        => /\ normResult.respInfo.kind = "dict"
           /\ DOMAIN normResult.respInfo.val = {"errCode", "errMsg"}
           /\ normResult.respInfo.val["errCode"] = resp.status_code
           /\ normResult.respInfo.val["errMsg"] = resp.body

\* C9: a successful (2xx) response whose body is no JSON, or is JSON that is
\* neither an object nor an array, comes back as a returned failure value
\* (ok = false): it is not a success and no exception leaves the call.
C9_MalformedIsReturnedFailure ==
    (NormDone /\ RespOk(resp) /\ resp.body.kind \in {"text", "scalar"})
        => (normResult.raised = FALSE /\ normResult.isOk = FALSE)

\* The keys the payload of an object holding "id" is to have.
C10_ExpectedKeys(j) ==
    {"id", "slug", "link"}
        \cup (IF "type" \in DOMAIN j /\ (j["type"] = "attachment" \/ j["type"] = "post")
              THEN {"url", "title"} ELSE {})
        \cup (IF "taxonomy" \in DOMAIN j THEN {"name", "description"} ELSE {})
        \cup (IF "taxonomy" \in DOMAIN j /\ j["taxonomy"] = "category"
              THEN {"parent"} ELSE {})

\* The body value a payload key is copied from.
C10_Source(j, k) ==
    CASE k = "url" -> j["guid"]["rendered"]
      [] k = "title" -> j["title"]["rendered"]
      [] OTHER -> j[k]

\* The body holds every field the payload is to be copied from.
C10_HasSources(j) ==
    \A k \in C10_ExpectedKeys(j) :
        CASE k = "url" -> "guid" \in DOMAIN j /\ "rendered" \in DOMAIN j["guid"]
          [] k = "title" -> "title" \in DOMAIN j /\ "rendered" \in DOMAIN j["title"]
          [] OTHER -> k \in DOMAIN j

\* C10: for a successful response whose body is an object holding "id",
\* processCommonResponse returns ok = true and a payload whose key set is
\* {id, slug, link}, plus {url, title} iff type is attachment or post, plus
\* {name, description} iff taxonomy is present, plus {parent} iff taxonomy is
\* "category", each value copied from the body; it returns so for every body
\* that holds the fields to copy.
C10_IdObjectPayload ==
    (NormDone /\ RespOk(resp) /\ BodyIsDictWithId)
        => LET j == resp.body.val IN
           /\ C10_HasSources(j) => normResult.raised = FALSE
           /\ normResult.raised = FALSE =>
                /\ normResult.isOk = TRUE
                /\ normResult.respInfo.kind = "dict"
                /\ DOMAIN normResult.respInfo.val = C10_ExpectedKeys(j)
                /\ \A k \in C10_ExpectedKeys(j) :
                       normResult.respInfo.val[k] = C10_Source(j, k)

\* A tag object (taxonomy post_tag, with a parent field in the body) was
\* normalised into a payload with name and description and no parent.
C10_Witness ==
    /\ NormReturned /\ RespOk(resp) /\ BodyIsDictWithId
    /\ "taxonomy" \in DOMAIN resp.body.val
    /\ resp.body.val["taxonomy"] = "post_tag"
    /\ "parent" \in DOMAIN resp.body.val
    /\ DOMAIN normResult.respInfo.val = {"id", "slug", "link", "name", "description"}

\* C11: for a successful response whose body is a JSON array, or a JSON
\* object without "id" (a token-validation response), processCommonResponse
\* returns ok = true and the parsed body itself as the payload: the same
\* elements in the same order, the same keys with the same values.
C11_BodyPassedThrough ==
    (/\ NormDone /\ RespOk(resp)
     /\ \/ resp.body.kind = "list"
        \/ resp.body.kind = "dict" /\ "id" \notin DOMAIN resp.body.val)
        => /\ normResult.raised = FALSE
           /\ normResult.isOk = TRUE
           /\ normResult.respInfo = resp.body

\* A two-record array came back as the payload, Cocoa still before Mac.
C11_Witness ==
    /\ NormReturned /\ RespOk(resp)
    /\ resp.body.kind = "list"
    /\ Len(resp.body.val) = 2
    /\ normResult.isOk = TRUE
    /\ normResult.respInfo.val[1].name = "Cocoa"
    /\ normResult.respInfo.val[2].name = "Mac"

----------------------------------------------------------------------------
(* Claims about findSameNameTaxonomy (SpecFind) *)

C4_ExactAt == { i \in 1..Len(findList) : findList[i].name = findName }
C4_LowerAt == { i \in 1..Len(findList) : Lower(findList[i].name) = Lower(findName) }
C4_Min(S) == CHOOSE i \in S : \A k \in S : i <= k
C4_Max(S) == CHOOSE i \in S : \A k \in S : i >= k

\* C4: findSameNameTaxonomy returns the first record whose name equals the
\* target exactly, wherever it is in the list; if there is none, the last
\* record whose lower-cased name equals the lower-cased target; else None.
C4_FindMatchPolicy ==
    findPc = "done" =>
        IF C4_ExactAt # {}
        THEN findResult = PyDict(findList[C4_Min(C4_ExactAt)])
        ELSE IF C4_LowerAt # {}
             THEN findResult = PyDict(findList[C4_Max(C4_LowerAt)])
             ELSE findResult = PyNone

\* Target "Mc" in [mc, mc, Mc]: two case-insensitive matches come first and
\* the exact-case record, third in the list, is the one returned.
C4_Witness ==
    /\ findPc = "done"
    /\ findName = <<"M", "c">>
    /\ Len(findList) = 3
    /\ findList[1].name = <<"m", "c">>
    /\ findList[2].name = <<"m", "c">>
    /\ findList[3].name = <<"M", "c">>
    /\ findResult = PyDict(findList[3])

----------------------------------------------------------------------------
(* Claims about getAllTaxonomy and getTaxonomyIdList (Spec) *)

IsGet(q) == q.req.method = "GET"
IsPost(q) == q.req.method = "POST"
ReqReturnedOk(q) == q.result.raised = FALSE /\ q.result.isOk = TRUE
ReqAt(num) == { k \in 1..Len(requests) : requests[k].curNum = num }
GetsAt(num) == { k \in ReqAt(num) : IsGet(requests[k]) }
PostsAt(num) == { k \in ReqAt(num) : IsPost(requests[k]) }

\* C1: getAllTaxonomy returns ok = true only if every page fetch it issued
\* succeeded; a failed later page makes the result ok = false.
C1_OkOnlyIfEveryPageOk ==
    \A g \in 1..Len(getAllResults) :
        getAllResults[g].isGetAllOk =>
            \A k \in GetsAt(getAllResults[g].curNum) : ReqReturnedOk(requests[k])

\* C2: a creation request for a name is sent only after the search for that
\* name succeeded (and found no match); after a failed search none is sent.
C2_CreateOnlyAfterSearchOk ==
    \A k \in 1..Len(requests) :
        IsPost(requests[k]) =>
            \E g \in 1..Len(getAllResults) :
                /\ getAllResults[g].curNum = requests[k].curNum
                /\ getAllResults[g].isGetAllOk

\* C3: getTaxonomyIdList does not raise for a failure of one name: as long
\* as every response is a transport failure or a JSON body (a creation
\* answered ok without an identifier included), no exception leaves it.
C3_NoRaiseOnPerNameFailure ==
    pc = "raised" =>
        \E k \in 1..Len(requests) : requests[k].resp.body.kind = "text"

\* The page a search request returned was a full one.
C5_OkAndFull(q) ==
    ReqReturnedOk(q) /\ Len(q.result.respInfo.val) >= SearchTagPerPage

\* C5: the search requests of one name ask for pages 1, 2, ... in order,
\* each once, with the fixed page size; page n+1 is asked for exactly when
\* page n came back ok with at least a page-size of items.  A full page 1
\* followed by an empty page 2 gives two requests and a page-size of items.
C5_PagesInOrder ==
    /\ \A k \in 1..Len(requests) :
          LET q == requests[k] IN
          IsGet(q) =>
            /\ q.req.params.per_page = SearchTagPerPage
            /\ q.req.params.search = nameList[q.curNum]
            /\ (q.req.params.page = 1) <=> (k = 1 \/ requests[k - 1].curNum # q.curNum)
            /\ q.req.params.page # 1 =>
                  /\ IsGet(requests[k - 1])
                  /\ q.req.params.page = requests[k - 1].req.params.page + 1
                  /\ C5_OkAndFull(requests[k - 1])
            /\ C5_OkAndFull(q) =>
                  IF k < Len(requests)
                  THEN /\ IsGet(requests[k + 1])
                       /\ requests[k + 1].curNum = q.curNum
                       /\ requests[k + 1].req.params.page = q.req.params.page + 1
                  ELSE /\ pc = "search_rest"
                       /\ curNum = q.curNum
                       /\ restCurPage = q.req.params.page + 1
    /\ \A g \in 1..Len(getAllResults) :
          LET gets == GetsAt(getAllResults[g].curNum) IN
          (/\ Cardinality(gets) = 2
           /\ \A k \in gets : ReqReturnedOk(requests[k])
           /\ \A k \in gets :
                 Len(requests[k].result.respInfo.val) =
                    (IF requests[k].req.params.page = 1 THEN SearchTagPerPage ELSE 0))
            => /\ getAllResults[g].isGetAllOk
               /\ Len(getAllResults[g].respInfo.val) = SearchTagPerPage

\* The first name's page 1 came back with exactly a page-size of items and
\* its page 2 with none: two requests, and getAllTaxonomy returned.
C5_Witness ==
    /\ Len(getAllResults) >= 1
    /\ Cardinality(GetsAt(1)) = 2
    /\ \A k \in GetsAt(1) : ReqReturnedOk(requests[k])
    /\ Len(requests[1].result.respInfo.val) = SearchTagPerPage
    /\ Len(requests[2].result.respInfo.val) = 0
    /\ Len(getAllResults[1].respInfo.val) = SearchTagPerPage

\* Every request so far was answered with success: a 2xx status and the
\* body the schema gives (an array for a search, an object with an id for a
\* creation).
AllRequestsSucceeded ==
    \A k \in 1..Len(requests) :
        /\ ReqReturnedOk(requests[k])
        /\ IsGet(requests[k]) => requests[k].resp.body.kind = "list"
        /\ IsPost(requests[k]) =>
              /\ requests[k].resp.body.kind = "dict"
              /\ "id" \in DOMAIN requests[k].resp.body.val

\* The array bodies of requests k..hi, concatenated.
RECURSIVE ConcatBodies(_, _)
ConcatBodies(k, hi) ==
    IF k > hi THEN <<>>
    ELSE requests[k].resp.body.val \o ConcatBodies(k + 1, hi)

SetMin(S) == CHOOSE i \in S : \A k \in S : i <= k
SetMax(S) == CHOOSE i \in S : \A k \in S : i >= k

\* Everything the remote listed for the num-th name, in page order.
C6_Listed(num) == ConcatBodies(SetMin(GetsAt(num)), SetMax(GetsAt(num)))

\* The remote listed a record whose name is the num-th name, up to case.
C6_Exists(num) ==
    \E j \in 1..Len(C6_Listed(num)) :
        Lower(C6_Listed(num)[j].name) = Lower(nameList[num])

\* C6: when every request succeeds, each name gets exactly one search
\* sequence (one page-1 request); a name the remote lists gets no creation
\* request and its existing id; a name the remote does not list gets exactly
\* one creation request and the id of the record created; the ids come out
\* one per name, in input order.
C6_AllSucceed ==
    AllRequestsSucceeded =>
        /\ pc = "done" => Len(iterations) = Len(nameList)
        /\ Len(taxonomyIdList) = Len(iterations)
        /\ \A num \in 1..Len(iterations) :
              /\ Cardinality({ k \in GetsAt(num) : requests[k].req.params.page = 1 }) = 1
              /\ IF C6_Exists(num)
                 THEN /\ PostsAt(num) = {}
                      /\ taxonomyIdList[num] =
                            FindSameNameTaxonomy(nameList[num], C6_Listed(num)).val["id"]
                 ELSE /\ Cardinality(PostsAt(num)) = 1
                      /\ \A k \in PostsAt(num) :
                            /\ requests[k].req.json = [name |-> nameList[num]]
                            /\ taxonomyIdList[num] = requests[k].resp.body.val["id"]

\* ["Mc", "cc"] with Mc on the remote and cc not: the call returned two ids
\* after one creation request, sent for cc.
C6_Witness ==
    /\ pc = "done"
    /\ nameList = << <<"M", "c">>, <<"c", "c">> >>
    /\ AllRequestsSucceeded
    /\ PostsAt(1) = {}
    /\ Cardinality(PostsAt(2)) = 1
    /\ Len(taxonomyIdList) = 2

\* What getAllTaxonomy returned for the num-th name.
C7_GetAll(num) ==
    getAllResults[CHOOSE g \in 1..Len(getAllResults) : getAllResults[g].curNum = num]

\* The identifier the num-th name resolved to: the id of the record its own
\* search matched, else the id its own creation answered with, else 0 (none).
C7_ResolvedId(num) ==
    LET g == C7_GetAll(num)
        found == IF g.isGetAllOk
                 THEN FindSameNameTaxonomy(nameList[num], g.respInfo.val)
                 ELSE PyNone
        createdIds == { requests[k].result.respInfo.val["id"] :
                          k \in { p \in PostsAt(num) :
                                    /\ ReqReturnedOk(requests[p])
                                    /\ requests[p].result.respInfo.kind = "dict"
                                    /\ "id" \in DOMAIN requests[p].result.respInfo.val } }
    IN  IF found.kind = "dict" THEN found.val["id"]
        ELSE IF createdIds # {} THEN CHOOSE x \in createdIds : TRUE
        ELSE 0

C7_IsId(x) == x # 0

\* C7: whenever getTaxonomyIdList has got through names 1..n, its id list
\* is the identifiers of the resolved ones among them in input order, each
\* the id given in that name's own search or creation response; at the
\* return n is the input length, so the output is at most as long as the
\* input and shorter by exactly the number of unresolved names.
C7_OutputIsResolvedIds ==
    LET ids == [num \in 1..Len(iterations) |-> C7_ResolvedId(num)] IN
    /\ pc = "done" => Len(iterations) = Len(nameList)
    /\ taxonomyIdList = SelectSeq(ids, C7_IsId)
    /\ Len(taxonomyIdList) <= Len(nameList)
    /\ Len(taxonomyIdList) + Cardinality({ num \in 1..Len(iterations) : ids[num] = 0 })
          = Len(iterations)

\* The call returned for two names of which the first could not be
\* resolved (its creation failed) and the second could: one id comes out.
C7_Witness ==
    /\ pc = "done"
    /\ Len(nameList) = 2
    /\ C7_ResolvedId(1) = 0
    /\ PostsAt(1) # {}
    /\ C7_ResolvedId(2) # 0
    /\ taxonomyIdList = <<C7_ResolvedId(2)>>

\* The page-1 request of the num-th name, when it has been sent.
C12_FirstGet(num) == requests[SetMin(GetsAt(num))]

\* C12: when the page-1 search of a name comes back not ok, getAllTaxonomy
\* sends no further search request for it and returns ok = false with the
\* page-1 error detail as the payload, no items accumulated.
C12_FirstPageFailurePropagated ==
    \A num \in 1..Len(nameList) :
        LET gets == GetsAt(num)
            first == C12_FirstGet(num)
        IN  (/\ gets # {}
             /\ first.result.raised = FALSE
             /\ first.result.isOk = FALSE)
                => /\ Cardinality(gets) = 1
                   /\ first.req.params.page = 1
                   /\ \E g \in 1..Len(getAllResults) : getAllResults[g].curNum = num
                   /\ \A g \in 1..Len(getAllResults) :
                         getAllResults[g].curNum = num =>
                            /\ getAllResults[g].isGetAllOk = FALSE
                            /\ getAllResults[g].respInfo = first.result.respInfo
                            /\ getAllResults[g].respInfo =
                                  PyDict([errCode |-> first.resp.status_code,
                                          errMsg |-> first.resp.body])

\* The remote holds at least a full page, the first name's page-1 request
\* was answered 403, and getAllTaxonomy returned ok = false.
C12_Witness ==
    /\ Len(remote) >= SearchTagPerPage
    /\ Len(getAllResults) >= 1
    /\ getAllResults[1].isGetAllOk = FALSE
    /\ requests[1].resp.status_code = 403
    /\ Cardinality(GetsAt(1)) = 1

\* C13: when every page fetch of a name succeeds, what getAllTaxonomy
\* returns for it is ok = true and exactly the pages fetched, concatenated in
\* page order: each item of each page once, in the order the remote gave it,
\* and nothing else.
C13_ResultIsConcatenation ==
    \A g \in 1..Len(getAllResults) :
        LET num == getAllResults[g].curNum IN
        (\A k \in GetsAt(num) : ReqReturnedOk(requests[k]) /\ requests[k].resp.body.kind = "list")
            => /\ getAllResults[g].isGetAllOk
               /\ getAllResults[g].respInfo = PyList(C6_Listed(num))
               /\ \A k \in SetMin(GetsAt(num))..SetMax(GetsAt(num)) : k \in GetsAt(num)

\* Two pages were fetched for the first name, a full one and a short one
\* that is not empty, and getAllTaxonomy returned the three records with
\* identifiers 1, 2, 3 in that order.
C13_Witness ==
    /\ Len(getAllResults) >= 1
    /\ Cardinality(GetsAt(1)) = 2
    /\ \A k \in GetsAt(1) : ReqReturnedOk(requests[k])
    /\ Len(requests[2].resp.body.val) = 1
    /\ getAllResults[1].isGetAllOk
    /\ Len(getAllResults[1].respInfo.val) = SearchTagPerPage + 1
    /\ \A i \in 1..(SearchTagPerPage + 1) : getAllResults[1].respInfo.val[i].id = i

\* The page-1 search requests sent for the num-th name.
C14_FirstPageGets(num) == { k \in GetsAt(num) : requests[k].req.params.page = 1 }

\* C14: with every request succeeding and the remote listing what was
\* created before, a name that was absent and stands twice in the batch is
\* searched for twice (a search sequence of its own each time, nothing
\* remembered from the first), created exactly once, at its first
\* occurrence, and resolved to the same identifier both times.
C14_ResolveTwiceCreatesOnce ==
    AllRequestsSucceeded =>
        \A i, j \in 1..Len(iterations) :
            (i < j /\ nameList[i] = nameList[j] /\ PostsAt(i) # {})
                => /\ Cardinality(C14_FirstPageGets(i)) = 1
                   /\ Cardinality(C14_FirstPageGets(j)) = 1
                   /\ \A a \in GetsAt(i), b \in GetsAt(j) : a < b
                   /\ Cardinality(PostsAt(i)) = 1
                   /\ PostsAt(j) = {}
                   /\ Cardinality({ k \in 1..Len(requests) :
                                      /\ IsPost(requests[k])
                                      /\ requests[k].req.json["name"] = nameList[i] }) = 1
                   /\ Len(taxonomyIdList) = Len(iterations)
                   /\ taxonomyIdList[i] = taxonomyIdList[j]

\* ["cc", "cc"] against a remote of a full page without cc: the call
\* returned the same identifier twice after one creation request, and the
\* second search went through two pages to find the record created.
C14_Witness ==
    /\ pc = "done"
    /\ nameList = << <<"c", "c">>, <<"c", "c">> >>
    /\ AllRequestsSucceeded
    /\ Cardinality(PostsAt(1)) = 1
    /\ PostsAt(2) = {}
    /\ Cardinality(GetsAt(2)) = 2
    /\ Len(taxonomyIdList) = 2
    /\ taxonomyIdList[1] = taxonomyIdList[2]
    /\ taxonomyIdList[1] = SearchTagPerPage + 1

----------------------------------------------------------------------------
(* Claims about createPost (SpecPost) *)

\* The requests sent so far to a given endpoint.
ReqsTo(url) == { k \in 1..Len(requests) : requests[k].req.url = url }

\* C15: createPost sends no request to the categories endpoint when its
\* category name list is empty and none to the tags endpoint when its tag
\* name list is empty, and the posts request then carries the empty list as
\* `categories` (as `tags`).
C15_EmptyListNoResolution ==
    /\ categoryNameList = <<>> =>
          /\ ReqsTo(ApiCategories) = {}
          /\ \A k \in ReqsTo(ApiPosts) : requests[k].req.json.categories = <<>>
    /\ tagNameList = <<>> =>
          /\ ReqsTo(ApiTags) = {}
          /\ \A k \in ReqsTo(ApiPosts) : requests[k].req.json.tags = <<>>

\* createPost returned for no categories and one tag: the tags endpoint was
\* asked, the categories endpoint was not, and the post went out with an
\* empty categories list and the tag's identifier.
C15_Witness ==
    /\ postPc = "done"
    /\ categoryNameList = <<>>
    /\ tagNameList # <<>>
    /\ ReqsTo(ApiTags) # {}
    /\ ReqsTo(ApiCategories) = {}
    /\ \E k \in ReqsTo(ApiPosts) :
          /\ requests[k].req.json.categories = <<>>
          /\ Len(requests[k].req.json.tags) = 1

----------------------------------------------------------------------------
(* Claims about validateToken (SpecToken) *)

\* The response is a transport success whose normalised payload holds the
\* valid-token code.
C16_TokenIsValid ==
    LET n == ProcessCommonResponse(tokenResp) IN
    /\ RespOk(tokenResp)
    /\ n.raised = FALSE
    /\ n.respInfo.kind = "dict"
    /\ "code" \in DOMAIN n.respInfo.val
    /\ n.respInfo.val["code"] = JWT_TOKEN_VALID_CODE

\* C16: validateToken returns true exactly when the response is a transport
\* success whose normalised payload has code = the valid-token code; for
\* every other response (a transport failure, or a 2xx JSON object with
\* anything else for a code) it returns false with the response detail, as
\* a value: no exception leaves it.
C16_TrueIffValidCode ==
    (tokenPc = "done" /\ (~RespOk(tokenResp) \/ tokenResp.body.kind = "dict"))
        => /\ tokenResult.raised = FALSE
           /\ tokenResult.isOk <=> C16_TokenIsValid
           /\ ~C16_TokenIsValid =>
                 tokenResult.respInfo = ProcessCommonResponse(tokenResp).respInfo

----------------------------------------------------------------------------
(* Claims about createTaxonomy (SpecCreate) *)

\* An optional argument was supplied with a value that is not empty.
C17_Given(a) ==
    CASE a.kind = "none" -> FALSE
      [] a.kind = "str" -> Len(a.val) > 0
      [] a.kind = "int" -> a.val > 0

\* C17: the body of the creation request always holds `name`; it holds
\* `slug` only when a slug was supplied, `description` only when a
\* description was supplied and `parent` only when the kind is category and
\* a parent id was supplied (never for a tag), each with the value supplied,
\* and it does hold them when the value supplied is not empty; the request
\* goes to the categories endpoint for a category and to the tags endpoint
\* for a tag.
C17_CreateRequestBody ==
    \A k \in 1..Len(createRequests) :
        LET q == createRequests[k].req
            d == q.json
            a == createArgs
        IN  /\ q.method = "POST"
            /\ a.taxonomy = "category" => q.url = ApiCategories
            /\ a.taxonomy = "post_tag" => q.url = ApiTags
            /\ DOMAIN d \subseteq {"name", "slug", "description", "parent"}
            /\ "name" \in DOMAIN d /\ d["name"] = a.name
            /\ "slug" \in DOMAIN d => a.slug # ArgNone /\ d["slug"] = a.slug.val
            /\ "description" \in DOMAIN d =>
                    a.description # ArgNone /\ d["description"] = a.description.val
            /\ "parent" \in DOMAIN d =>
                    /\ a.taxonomy = "category"
                    /\ a.parent # ArgNone /\ d["parent"] = a.parent.val
            /\ C17_Given(a.slug) => "slug" \in DOMAIN d
            /\ C17_Given(a.description) => "description" \in DOMAIN d
            /\ (a.taxonomy = "category" /\ C17_Given(a.parent)) => "parent" \in DOMAIN d

\* A tag was created with a parent id and a slug passed in: the request went
\* to the tags endpoint with name and slug, and without parent.
C17_Witness ==
    /\ createPc = "done"
    /\ createArgs.taxonomy = "post_tag"
    /\ createArgs.parent = ArgInt(4624)
    /\ createArgs.slug = ArgStr("mac-2")
    /\ createArgs.description = ArgNone
    /\ Len(createRequests) = 1
    /\ createRequests[1].req.url = ApiTags
    /\ DOMAIN createRequests[1].req.json = {"name", "slug"}

----------------------------------------------------------------------------
(* Claims about generateSlug (SpecSlug) *)

\* C18: for every title, the slug holds only letters, digits and
\* underscores, does not begin or end with an underscore and has no two
\* underscores in a row.
C18_SlugShape ==
    slugPc = "done" =>
        /\ \A i \in 1..Len(slugResult) : IsWordChar(slugResult[i])
        /\ slugResult # <<>> =>
              slugResult[1] # "_" /\ slugResult[Len(slugResult)] # "_"
        /\ \A i \in 1..(Len(slugResult) - 1) :
              ~(slugResult[i] = "_" /\ slugResult[i + 1] = "_")

\* The title is x'y: two word fragments with an apostrophe between them.
C19_ApostropheAt(k) ==
    /\ enTitle[k] = "'"
    /\ k > 1 /\ k < Len(enTitle)
    /\ \A i \in 1..Len(enTitle) : i # k => IsWordChar(enTitle[i])

\* C19: for word fragments x and y, the slug of the title x'y is xy in
\* lower case: the apostrophe is gone and both fragments are kept.
C19_ContractionMerged ==
    slugPc = "done" =>
        \A k \in 1..Len(enTitle) :
            C19_ApostropheAt(k) =>
                slugResult = Lower(SubSeq(enTitle, 1, k - 1))
                                \o Lower(SubSeq(enTitle, k + 1, Len(enTitle)))

\* The title is words with whitespace between them and none around them.
C20_TitleIsWords ==
    /\ enTitle # <<>>
    /\ \A i \in 1..Len(enTitle) : IsWordChar(enTitle[i]) \/ IsSpaceChar(enTitle[i])
    /\ IsWordChar(enTitle[1]) /\ IsWordChar(enTitle[Len(enTitle)])

\* The string as the pass of the n-th stop word finds it.
C20_Before(n) == RemoveWords(ReSub(ContractionP, ContractionRepl, Lower(enTitle)), n - 1)

\* The places in s where w stands as a whole token between separators (or
\* the ends of s), and those where it has whitespace on both sides.
C20_Tokens(s, w, Sep) ==
    { i \in 1..Len(s) :
        /\ WordAt(s, i, w)
        /\ i = 1 \/ s[i - 1] \in Sep
        /\ i + Len(w) = Len(s) + 1 \/ s[i + Len(w)] \in Sep }
C20_Surrounded(s, w) ==
    { i \in C20_Tokens(s, w, SpaceChars) : i > 1 /\ i + Len(w) <= Len(s) }

\* C20: in a title of whitespace-separated words, every stop word that has
\* whitespace on both sides when its pass begins is removed: the slug holds
\* at most as many tokens of that word as the string held then, less the
\* ones that had whitespace on both sides ("x the the y" included).
C20_StopWordsRemoved ==
    (slugPc = "done" /\ C20_TitleIsWords) =>
        \A n \in 1..Len(RemoveWordList) :
            LET w == RemoveWordList[n]
                s == C20_Before(n)
            IN  Cardinality(C20_Tokens(slugResult, w, {"_"}))
                    + Cardinality(C20_Surrounded(s, w))
                        <= Cardinality(C20_Tokens(s, w, SpaceChars))

\* 'give_pip_replacement_source_mac_speed_up_download'
C21_ExampleSlug ==
    <<"g", "i", "v", "e", "_", "p", "i", "p", "_", "r", "e", "p", "l", "a",
      "c", "e", "m", "e", "n", "t", "_", "s", "o", "u", "r", "c", "e", "_",
      "m", "a", "c", "_", "s", "p", "e", "e", "d", "_", "u", "p", "_", "d",
      "o", "w", "n", "l", "o", "a", "d">>

----------------------------------------------------------------------------
(* Claims about getAllTaxonomy with every request answered (SpecLive) *)

\* getAllTaxonomy is at work for the k-th name.
C22_Fetching(k) == curNum = k /\ pc \in {"search_first", "search_rest"}

\* getAllTaxonomy has returned for the k-th name.
C22_Returned(k) == \E g \in 1..Len(getAllResults) : getAllResults[g].curNum = k

\* Each call that returned stopped at the first page that was short or
\* failed: that page is its last request and every one before was full.
C22_StoppedAtFirst ==
    \A g \in 1..Len(getAllResults) :
        LET gets == GetsAt(getAllResults[g].curNum) IN
        /\ gets # {}
        /\ \A k \in gets : C5_OkAndFull(requests[k]) <=> k # SetMax(gets)

\* C22: getAllTaxonomy terminates.  Once it is at work for a name it comes
\* to return (the remote's pages run out or a fetch fails), and it has then
\* stopped at the first page that was short or failed.  A response that is
\* no JSON is neither: the exception it raises ends the call as well.
C22_FetchAllTerminates ==
    /\ [] C22_StoppedAtFirst
    /\ \A k \in 1..MaxNames :
          C22_Fetching(k) ~> (C22_Returned(k) \/ pc = "raised")

\* Against two full pages, getAllTaxonomy returned after three requests:
\* two full pages and an empty one.
C22_Witness ==
    /\ Len(getAllResults) >= 1
    /\ Cardinality(GetsAt(1)) = 3
    /\ C5_OkAndFull(requests[1]) /\ C5_OkAndFull(requests[2])
    /\ ReqReturnedOk(requests[3])
    /\ requests[3].req.params.page = 3
    /\ Len(requests[3].result.respInfo.val) = 0

----------------------------------------------------------------------------
(* Claims about requests that failed (Spec) *)

\* The request came back with a status that is no success.
C23_Failed(q) == ~RespOk(q.resp)

\* The claim as stated: within one getTaxonomyIdList call no request is
\* sent again, with the same method, endpoint and parameters, after it
\* failed.
C23_NeverReissuedInCall ==
    \A j \in 1..Len(requests) : \A k \in 1..Len(requests) :
        (j < k /\ C23_Failed(requests[j])) => requests[k].req # requests[j].req

\* C23: a request that failed is never sent again for the same list entry:
\* within the search and the creation of one name, no request after a
\* failed one has its method, endpoint and parameters.  (A name listed
\* twice is searched again, in a round trip of its own.)
C23_NeverRetried ==
    \A j \in 1..Len(requests) : \A k \in 1..Len(requests) :
        (/\ j < k
         /\ C23_Failed(requests[j])
         /\ requests[j].curNum = requests[k].curNum)
        => requests[k].req # requests[j].req

\* Page 2 of a search failed and the same list entry went on to a creation
\* request, which failed too, and the call is over.
C23_Witness ==
    /\ pc = "done"
    /\ Len(requests) = 3
    /\ \A k \in 1..3 : requests[k].curNum = 1
    /\ IsGet(requests[2]) /\ C23_Failed(requests[2])
    /\ IsPost(requests[3]) /\ C23_Failed(requests[3])

----------------------------------------------------------------------------
(* Claims about two clients resolving one name (SpecRace) *)

\* The client that sent the k-th request: the one that had taken over last.
C24_Sender(k) ==
    LET before == { i \in 1..Len(marks) : marks[i].len < k }
    IN  IF before = {} THEN 1 ELSE marks[CHOOSE i \in before : \A j \in before : i >= j].client

C24_PcOf(c) == IF client = c THEN pc ELSE other.pc

C24_Posts == { k \in 1..Len(requests) : IsPost(requests[k]) }

\* No record of the collection had the name, in any case of letters, when
\* the clients started.
C24_Absent ==
    \A i \in 1..Len(remote0) : Lower(remote0[i].name) # Lower(nameList[1])

\* Both clients' searches returned before any creation request was sent.
C24_BothSearchedFirst ==
    /\ Len(getAllResults) = 2
    /\ \A k \in 1..Len(requests) : \A j \in C24_Posts : IsGet(requests[k]) => k < j

\* Both creation requests were answered with the created record.
C24_BothCreated ==
    /\ Cardinality(C24_Posts) = 2
    /\ \A j \in C24_Posts : requests[j].resp.status_code = 201

\* The records of the collection that have exactly the name.
C24_SameName == { i \in 1..Len(remote) : remote[i].name = nameList[1] }

\* C24: the resolution is not atomic.  When two clients resolve the same
\* absent name and both searches are over before either creation request,
\* nothing holds either client back: each one is about to send its creation
\* request or has sent it, and once both were answered with the created
\* record the collection has two records of that name.
C24_BothCreate ==
    (C24_Absent /\ C24_BothSearchedFirst) =>
        /\ \A c \in {1, 2} :
              \/ C24_PcOf(c) = "create"
              \/ \E j \in C24_Posts : C24_Sender(j) = c
        /\ C24_BothCreated => Cardinality(C24_SameName) = 2

\* The interleaving: client 1 searches, client 2 searches, then both create,
\* and the collection, which had no such name, has it twice.
C24_Witness ==
    /\ C24_Absent /\ C24_BothSearchedFirst /\ C24_BothCreated
    /\ Len(requests) = 4
    /\ C24_Sender(1) = 1 /\ C24_Sender(2) = 2
    /\ IsGet(requests[1]) /\ IsGet(requests[2])
    /\ { C24_Sender(j) : j \in C24_Posts } = {1, 2}
    /\ pc = "done" /\ other.pc = "done"
    /\ Cardinality(C24_SameName) = 2
    /\ Len(taxonomyIdList) = 1 /\ Len(other.taxonomyIdList) = 1
    /\ taxonomyIdList # other.taxonomyIdList

----------------------------------------------------------------------------
(* Claims about the order of createPost's requests (SpecPost) *)

\* The ids the resolver returned for the iterations lo..hi: the id of each
\* name that got a record, in order.
C25_ReturnedIds(lo, hi) ==
    LET id(i) == IF Truthy(iterations[i].curTaxonomy)
                 THEN iterations[i].curTaxonomy.val["id"]
                 ELSE 0
    IN  SelectSeq([i \in 1..(hi - lo + 1) |-> id(lo + i - 1)], C7_IsId)

\* Every search and creation request comes before the posts request, and
\* every categories request before every tags request.
C25_Ordered ==
    /\ \A k \in ReqsTo(ApiPosts) : \A j \in 1..Len(requests) :
          requests[j].req.url # ApiPosts => j < k
    /\ \A j \in ReqsTo(ApiCategories) : \A k \in ReqsTo(ApiTags) : j < k

\* The posts request carries the id lists the resolver returned.
C25_FieldsAreReturnedIds ==
    \A k \in ReqsTo(ApiPosts) :
        LET nCat == Len(categoryNameList) IN
        /\ Len(iterations) = nCat + Len(tagNameList)
        /\ requests[k].req.json.categories = C25_ReturnedIds(1, nCat)
        /\ requests[k].req.json.tags = C25_ReturnedIds(nCat + 1, Len(iterations))

\* createPost is over: it returned, or an exception left it.
C25_Over == postPc = "done" \/ pc = "raised"

\* C25: in createPost every taxonomy search and creation request precedes
\* the posts request, the categories are resolved before the tags, the posts
\* request carries the id lists the resolver returned, and a call that is
\* over has sent exactly one posts request whatever the resolutions gave.
C25_OnePostAfterResolutions ==
    /\ C25_Ordered
    /\ C25_FieldsAreReturnedIds
    /\ Cardinality(ReqsTo(ApiPosts)) <= 1
    /\ C25_Over => Cardinality(ReqsTo(ApiPosts)) = 1

----------------------------------------------------------------------------
(* Claims about duplicates (Spec) *)

\* The remote collection as it was when the k-th request was sent: the
\* records created from then on are the last ones of the collection.
C26_RemoteAt(k) ==
    LET later == { j \in k..Len(requests) :
                     IsPost(requests[j]) /\ requests[j].resp.status_code = 201 }
    IN  SubSeq(remote, 1, Len(remote) - Cardinality(later))

\* C26: no creation request is sent for a name while the remote collection
\* (all the pages of the search for that name) holds a record with exactly
\* that name; a failed or truncated search creates no duplicate.
C26_NoDuplicateCreated ==
    \A k \in 1..Len(requests) :
        IsPost(requests[k]) =>
            \A i \in 1..Len(C26_RemoteAt(k)) :
                C26_RemoteAt(k)[i].name # nameList[requests[k].curNum]

----------------------------------------------------------------------------
(* Claims about what searchTaxonomy reports (Spec) *)

\* The list getAllTaxonomy fetched for the num-th name.
C27_Fetched(num) == C7_GetAll(num).respInfo.val

\* No fetched candidate of the num-th name has its name, ignoring case.
C27_NoCandidate(num) ==
    LET fetched == C27_Fetched(num)
        lowerName == Lower(nameList[num])
    IN  \A j \in 1..Len(fetched) : Lower(fetched[j]["name"]) # lowerName

\* Where the id of the num-th name stands in the id list: after the ids of
\* the names before it that got one.
C27_Pos(num) == Cardinality({ j \in 1..num : Truthy(iterations[j].curTaxonomy) })

\* The num-th iteration took the found branch.
C27_FoundAt(num) ==
    /\ iterations[num].isSearhOk
    /\ Truthy(iterations[num].existedTaxonomy)

\* C27: when searchTaxonomy reports ok = true with a record, the record is
\* one of the list fetched for that search, its lower-cased name is the
\* lower-cased searched name, no creation request is sent and the id put on
\* the id list for the name is the record's id; when it reports ok = true
\* with no record, no fetched candidate has the name ignoring case.
C27_SearchReportIsSound ==
    /\ \A num \in 1..Len(iterations) :
          LET it == iterations[num]
              fetched == C27_Fetched(num)
          IN
          /\ C27_FoundAt(num) =>
                /\ \E j \in 1..Len(fetched) : fetched[j] = it.existedTaxonomy.val
                /\ Lower(it.existedTaxonomy.val["name"]) = Lower(nameList[num])
                /\ PostsAt(num) = {}
                /\ taxonomyIdList[C27_Pos(num)] = it.existedTaxonomy.val["id"]
          /\ (it.isSearhOk /\ ~Truthy(it.existedTaxonomy)) => C27_NoCandidate(num)
    /\ (pc = "create" /\ isSearhOk) =>
          /\ ~Truthy(existedTaxonomy)
          /\ C27_NoCandidate(curNum)

\* The second name was found by a record that differs from it in case only,
\* listed on the second page, after the first name had to be created; the
\* id list holds the created id and then the found record's.
C27_Witness ==
    /\ pc = "done"
    /\ Len(iterations) = 2
    /\ ~C27_FoundAt(1) /\ iterations[1].isSearhOk /\ Truthy(iterations[1].curTaxonomy)
    /\ C27_FoundAt(2)
    /\ iterations[2].existedTaxonomy.val["name"] # nameList[2]
    /\ Cardinality(GetsAt(2)) = 2
    /\ taxonomyIdList = <<iterations[1].curTaxonomy.val["id"],
                          iterations[2].existedTaxonomy.val["id"]>>

====
